---- MODULE Spec2Model ----
(***************************************************************************)
(* Model of the stockalizer time-trigger functions:                        *)
(*   news-analysis        (text encoder, row parser, window filter, report)*)
(*   news-analysis-vader  (the same pipeline without the neural scorer)    *)
(*   stogger              (timer handler that stores the fetched report)   *)
(*                                                                         *)
(* Python strings are sequences of one-character strings.  Timestamps are  *)
(* minutes since 2024-01-01 00:00.  Scores are integers in tenths; a mean  *)
(* is a reduced fraction <<numerator, denominator>>.                       *)
(***************************************************************************)
EXTENDS Integers, Sequences, FiniteSets, TLC

VARIABLES word_index, title, encoded_title,
          news_table, call, parsed_ticker_data, df, result, data,
          db, runs

vars == <<word_index, title, encoded_title,
          news_table, call, parsed_ticker_data, df, result, data,
          db, runs>>

encoderVars == <<word_index, title, encoded_title>>
newsVars == <<news_table, call, parsed_ticker_data, df, result, data>>
stoggerVars == <<db, runs>>

\* ------------------------------------------------------------------ bounds
MaxHead == 2
MaxFill == 100
MaxRows == 3
MaxRuns == 3

\* ------------------------------------------------------- program constants
maxlen == 100
StartIndex == 1
UnknownIndex == 2

\* ---------------------------------------------------------- outcomes
None == [status |-> "none", exc |-> "", value |-> <<>>]
Returned(v) == [status |-> "ok", exc |-> "", value |-> v]
Raised(e) == [status |-> "raised", exc |-> e, value |-> <<>>]

\* ================================================================ encoder
PAD == <<"<", "P", "A", "D", ">">>
Whitespace == {" ", "\t"}

\* the vocabularies the blob storage may hold; the last one lacks <PAD>
Vocabularies ==
  { (PAD :> 0) @@ (<<"u", "p">> :> 5) @@ (<<"x">> :> 7),
    (PAD :> 9) @@ (<<"u", "p">> :> 3) @@ (<<"x">> :> 4) @@ (<<"z", "z">> :> 6),
    (<<"u", "p">> :> 5) @@ (<<"x">> :> 7) }

\* words the input titles are built from
Words == { <<"U", "p">>, <<"u", "p", ".">>, <<"a", ":", "b">>, <<",">>,
           <<"z", "z">>, PAD }
Filler == <<"x">>

RECURSIVE join(_)
join(ws) ==
  IF ws = <<>> THEN <<>>
  ELSE IF Len(ws) = 1 THEN ws[1]
  ELSE LET h == Len(ws) \div 2
       IN join(SubSeq(ws, 1, h)) \o <<" ">> \o join(SubSeq(ws, h + 1, Len(ws)))

Heads == UNION { [1..n -> Words] : n \in 0..MaxHead }
MkTitle(head, k) == join(head \o [i \in 1..k |-> Filler])

lower_char(c) ==
  CASE c = "U" -> "u" [] c = "P" -> "p" [] c = "A" -> "a" [] c = "D" -> "d"
    [] OTHER -> c
lower(s) == [i \in 1..Len(s) |-> lower_char(s[i])]

replace(s, ch) == SelectSeq(s, LAMBDA c : c # ch)

\* str.split(): the maximal runs of non-whitespace characters, in order
split(s) ==
  LET idx == [i \in 1..Len(s) |-> i]
      starts == SelectSeq(idx, LAMBDA i :
                   s[i] \notin Whitespace /\ (i = 1 \/ s[i - 1] \in Whitespace))
      ends == SelectSeq(idx, LAMBDA i :
                   s[i] \notin Whitespace /\ (i = Len(s) \/ s[i + 1] \in Whitespace))
  IN [k \in 1..Len(starts) |-> SubSeq(s, starts[k], ends[k])]

encode_title_nolower(words, wi) ==
  <<StartIndex>> \o [i \in 1..Len(words) |->
      IF words[i] \in DOMAIN wi THEN wi[words[i]] ELSE UnknownIndex]
encode_title(words, wi) ==
  <<StartIndex>> \o [i \in 1..Len(words) |->
      IF lower(words[i]) \in DOMAIN wi THEN wi[lower(words[i])] ELSE UnknownIndex]

\* keras pad_sequences(sequences, value=..., padding="post", maxlen=...):
\* truncating keeps its default "pre", so an over-long row loses its head
pad_sequences_notrunc(seqs, value, len) ==
  [k \in 1..Len(seqs) |->
     seqs[k] \o [i \in 1..(len - Len(seqs[k])) |-> value]]
pad_sequences(seqs, value, len) ==
  [k \in 1..Len(seqs) |->
     IF Len(seqs[k]) > len
     THEN SubSeq(seqs[k], Len(seqs[k]) - len + 1, Len(seqs[k]))
     ELSE seqs[k] \o [i \in 1..(len - Len(seqs[k])) |-> value]]

strip_chars(t) == replace(replace(replace(t, "."), ","), ":")

prepare_news_title(t, wi) ==
  LET words == split(strip_chars(t))
      encoded == encode_title(words, wi)
  IN IF PAD \notin DOMAIN wi
     THEN Raised("KeyError")
     ELSE Returned(pad_sequences(<<encoded>>, wi[PAD], maxlen))

\* the vocabulary is loaded at import; title is the argument of the pending
\* call of prepare_news_title
InitEncoder ==
  /\ word_index \in Vocabularies
  /\ title \in { MkTitle(head, k) : head \in Heads, k \in 0..MaxFill }
  /\ encoded_title = None
  /\ news_table = <<>>
  /\ call = [fn |-> "none", service |-> "", start |-> 0, end |-> 0]
  /\ parsed_ticker_data = None
  /\ df = <<>>
  /\ result = None
  /\ data = None
  /\ db = <<>>
  /\ runs = <<>>

PrepareNewsTitle ==
  /\ encoded_title = None
  /\ encoded_title' = prepare_news_title(title, word_index)
  /\ UNCHANGED <<word_index, title, newsVars, stoggerVars>>

\* ============================================================ row parser
Ticker == "AMZN"
DateTokens == {"Jan-15-24", "Jan-16-24"}
TimeTokens == {"12:05AM", "01:30PM"}
NewsTitles == { <<"U", "p">>, <<"z", "z">> }
Unbound == "<unbound>"

\* the text of a timestamp cell, as its pieces: a time, or a date, a space
\* and a time
CellTexts == { <<t>> : t \in TimeTokens }
             \cup { <<d, " ", t>> : d \in DateTokens, t \in TimeTokens }

\* a <tr> of the news table: its first <a> and first <td>, when it has them
WellFormedRows ==
  { [has_a |-> TRUE, a_text |-> ti, has_td |-> TRUE, td_text |-> c] :
      ti \in NewsTitles, c \in CellTexts }
MalformedRows ==
  { [has_a |-> FALSE, a_text |-> <<>>, has_td |-> TRUE, td_text |-> <<"12:05AM">>],
    [has_a |-> TRUE, a_text |-> <<"U", "p">>, has_td |-> FALSE, td_text |-> <<>>] }
Rows == WellFormedRows \cup MalformedRows
Listings == UNION { [1..n -> Rows] : n \in 0..MaxRows }

\* str.split(" ") on the pieces of a cell text
RECURSIVE split_sep_from(_, _, _, _)
split_sep_from(text, i, cur, acc) ==
  IF i > Len(text) THEN Append(acc, cur)
  ELSE IF text[i] = " "
       THEN split_sep_from(text, i + 1, "", Append(acc, cur))
       ELSE split_sep_from(text, i + 1, text[i], acc)
split_sep(text) == split_sep_from(text, 1, "", <<>>)

RECURSIVE parse_rows_firstdate(_, _, _, _)
parse_rows_firstdate(rows, i, date, parsed) ==
  IF i > Len(rows) THEN Returned(parsed)
  ELSE IF ~rows[i].has_a THEN Raised("AttributeError")
  ELSE IF ~rows[i].has_td THEN Raised("AttributeError")
  ELSE LET date_data == split_sep(rows[i].td_text)
           time == IF Len(date_data) = 1 THEN date_data[1] ELSE date_data[2]
           date1 == IF date # Unbound \/ Len(date_data) = 1
                    THEN date ELSE date_data[1]
       IN IF date1 = Unbound
          THEN Raised("UnboundLocalError")
          ELSE parse_rows_firstdate(rows, i + 1, date1,
                          Append(parsed, <<Ticker, date1, time, rows[i].a_text>>))

RECURSIVE parse_rows_defaultdate(_, _, _, _)
parse_rows_defaultdate(rows, i, date, parsed) ==
  IF i > Len(rows) THEN Returned(parsed)
  ELSE IF ~rows[i].has_a THEN Raised("AttributeError")
  ELSE IF ~rows[i].has_td THEN Raised("AttributeError")
  ELSE LET date_data == split_sep(rows[i].td_text)
           time == IF Len(date_data) = 1 THEN date_data[1] ELSE date_data[2]
           date1 == IF Len(date_data) = 1
                    THEN (IF date = Unbound THEN "Jan-15-24" ELSE date)
                    ELSE date_data[1]
       IN parse_rows_defaultdate(rows, i + 1, date1,
                          Append(parsed, <<Ticker, date1, time, rows[i].a_text>>))

\* the loop of parse_data: date is the loop-carried local, unbound at entry
RECURSIVE parse_rows(_, _, _, _)
parse_rows(rows, i, date, parsed) ==
  IF i > Len(rows) THEN Returned(parsed)
  ELSE IF ~rows[i].has_a THEN Raised("AttributeError")
  ELSE IF ~rows[i].has_td THEN Raised("AttributeError")
  ELSE LET date_data == split_sep(rows[i].td_text)
           time == IF Len(date_data) = 1 THEN date_data[1] ELSE date_data[2]
           date1 == IF Len(date_data) = 1 THEN date ELSE date_data[1]
       IN IF date1 = Unbound
          THEN Raised("UnboundLocalError")
          ELSE parse_rows(rows, i + 1, date1,
                          Append(parsed, <<Ticker, date1, time, rows[i].a_text>>))

parse_data_firstdate(table) == parse_rows_firstdate(table, 1, Unbound, <<>>)
parse_data_defaultdate(table) == parse_rows_defaultdate(table, 1, Unbound, <<>>)
parse_data(table) == parse_rows(table, 1, Unbound, <<>>)

\* ================================================================ scorers
\* vader.polarity_scores(title)["compound"], in tenths
compound(t) == IF t = <<"U", "p">> THEN 5 ELSE -5
\* model.predict(encoded_title)[0], in tenths
model_predict(enc) == IF enc[1][2] = UnknownIndex THEN 2 ELSE 8

\* ============================================================= timestamps
TimeFields == ("12:05AM" :> [h |-> 12, m |-> 5, p |-> "AM"])
              @@ ("01:30PM" :> [h |-> 1, m |-> 30, p |-> "PM"])
DateFields == ("Jan-15-24" :> [day |-> 15]) @@ ("Jan-16-24" :> [day |-> 16])

\* pd.to_datetime(df.time).dt.strftime("%H:%M:%S"), as minutes of the day
to_24h(tok) ==
  LET f == TimeFields[tok]
  IN ((f.h % 12) + (IF f.p = "PM" THEN 12 ELSE 0)) * 60 + f.m
\* pd.to_datetime(df.date + " " + df.time)
to_datetime(date, time24) == (DateFields[date].day - 1) * 1440 + time24

Stamp(day, h, m) == ((day - 1) * 24 + h) * 60 + m
WindowTimes == { Stamp(15, 0, 5), Stamp(15, 13, 30), Stamp(16, 0, 5), Stamp(16, 12, 0) }
Nows == { Stamp(15, 13, 30), Stamp(16, 12, 0) }
Hours == { -24, 0, 24 }
Services == { "news-analysis", "news-analysis-vader" }

\* ================================================================== means
RECURSIVE gcd(_, _)
gcd(a, b) == IF b = 0 THEN a ELSE gcd(b, a % b)
abs(n) == IF n < 0 THEN -n ELSE n
Frac(n, d) == LET g == gcd(abs(n), d) IN <<n \div g, d \div g>>
Zero == <<0, 1>>
Half == <<1, 2>>

RECURSIVE sum(_, _)
sum(s, col) == IF s = <<>> THEN 0 ELSE s[1][col] + sum(Tail(s), col)
mean(s, col) == Frac(sum(s, col), 10 * Len(s))

\* ===================================================== time-window filter
in_window_exclusive(ts, start_date, end_date) == ts > start_date /\ ts < end_date
in_window_noStart(ts, start_date, end_date) == ts <= end_date
\* mask = (df["date"] >= start_date) & (df["date"] <= end_date)
in_window(ts, start_date, end_date) == ts >= start_date /\ ts <= end_date

empty_window_result_zero(service, rows) ==
  IF service = "news-analysis" THEN <<rows, Zero, Zero>> ELSE <<rows, Half>>
\* the return of the rows == 0 branch
empty_window_result(service, rows) ==
  IF service = "news-analysis" THEN <<rows, Zero, Half>> ELSE <<rows, Zero>>

\* the data frame before the window filter, one record per parsed row
frame(parsed, service, wi) ==
  [i \in 1..Len(parsed) |->
     LET time24 == to_24h(parsed[i][3])
         ts == to_datetime(parsed[i][2], time24)
     IN IF service = "news-analysis"
        THEN [index |-> i - 1, ticker |-> parsed[i][1], date |-> ts,
              time |-> time24, title |-> parsed[i][4],
              compound |-> compound(parsed[i][4]),
              compound_model |->
                model_predict(prepare_news_title(parsed[i][4], wi).value)]
        ELSE [index |-> i - 1, ticker |-> parsed[i][1], date |-> ts,
              time |-> time24, title |-> parsed[i][4],
              compound |-> compound(parsed[i][4])]]

\* predict_for_ticker with its locals: the parse outcome, the filtered frame
\* and the returned tuple
predict_for_ticker(service, table, wi, start_date, end_date) ==
  LET parsed == parse_data(table)
  IN IF parsed.status = "raised"
     THEN [parsed |-> parsed, df |-> <<>>, result |-> Raised(parsed.exc)]
     ELSE IF service = "news-analysis" /\ parsed.value # <<>>
             /\ PAD \notin DOMAIN wi
     THEN [parsed |-> parsed, df |-> <<>>, result |-> Raised("KeyError")]
     ELSE LET kept == SelectSeq(frame(parsed.value, service, wi),
                        LAMBDA r : in_window(r.date, start_date, end_date))
              rows == Len(kept)
          IN [parsed |-> parsed, df |-> kept,
              result |-> Returned(
                IF rows = 0 THEN empty_window_result(service, rows)
                ELSE IF service = "news-analysis"
                THEN <<rows, mean(kept, "compound"), mean(kept, "compound_model")>>
                ELSE <<rows, mean(kept, "compound")>>)]

\* ========================================================= report builder
predict_automatically(service, table, wi, hours_till_now, now) ==
  LET current_time == now
      start_time == now - hours_till_now * 60
      p == predict_for_ticker(service, table, wi, start_time, current_time)
      r == p.result.value
  IN [parsed |-> p.parsed, df |-> p.df, result |-> p.result,
      data |->
        IF p.result.status = "raised" THEN Raised(p.result.exc)
        ELSE IF service = "news-analysis"
        THEN Returned([ticker |-> Ticker,
                       timeframe |-> [startTime |-> start_time, endTime |-> current_time],
                       sentimentScoreVader |-> r[2],
                       sentimentScoreModel |-> r[3],
                       newsCount |-> r[1],
                       createdBy |-> "az-function(news-analysis)",
                       createdAt |-> current_time])
        ELSE Returned([ticker |-> Ticker,
                       timeframe |-> [startTime |-> start_time, endTime |-> current_time],
                       sentimentScoreVader |-> r[2],
                       newsCount |-> r[1],
                       createdBy |-> "az-function(news-analysis)",
                       createdAt |-> current_time])]

NoCall == [fn |-> "none", service |-> "", start |-> 0, end |-> 0]
DefaultVocabulary == (PAD :> 0) @@ (<<"u", "p">> :> 5) @@ (<<"x">> :> 7)

\* the vocabulary is loaded, the site shows some listing, nothing was called
InitNews ==
  /\ word_index = DefaultVocabulary
  /\ title = <<>>
  /\ encoded_title = None
  /\ db = <<>>
  /\ runs = <<>>
  /\ news_table \in Listings
  /\ call = NoCall
  /\ parsed_ticker_data = None
  /\ df = <<>>
  /\ result = None
  /\ data = None

\* a direct call of predict_for_ticker(ticker, start_date, end_date)
PredictForTicker ==
  /\ call = NoCall
  /\ \E service \in Services, start_date \in WindowTimes, end_date \in WindowTimes :
    LET p == predict_for_ticker(service, news_table, word_index, start_date, end_date)
    IN /\ call' = [fn |-> "predict_for_ticker", service |-> service,
                   start |-> start_date, end |-> end_date]
       /\ parsed_ticker_data' = p.parsed
       /\ df' = p.df
       /\ result' = p.result
       /\ data' = None
       /\ UNCHANGED <<news_table, encoderVars, stoggerVars>>

\* the HTTP handler main of either service: predict_automatically("AMZN", interval)
Main ==
  /\ call = NoCall
  /\ \E service \in Services, hours \in Hours, now \in Nows :
    LET p == predict_automatically(service, news_table, word_index, hours, now)
    IN /\ call' = [fn |-> "predict_automatically", service |-> service,
                   start |-> now - hours * 60, end |-> now]
       /\ parsed_ticker_data' = p.parsed
       /\ df' = p.df
       /\ result' = p.result
       /\ data' = p.data
       /\ UNCHANGED <<news_table, encoderVars, stoggerVars>>

\* ================================================================ stogger
ServiceIntervals == {24}
StoggerListings == { l \in Listings : Len(l) <= 2 }

\* mycol.insert_one(put_data)
store_data_to_db(collection, put_data) == Append(collection, put_data)

stogger_main_always(collection, response) ==
  IF response.status # "ok" THEN collection
  ELSE IF response.value.newsCount >= 0
       THEN store_data_to_db(collection, response.value)
       ELSE collection
\* the body of main(mytimer) after the fetch: the collection it leaves behind
stogger_main(collection, response) ==
  IF response.status # "ok" THEN collection
  ELSE IF response.value.newsCount > 0
       THEN store_data_to_db(collection, response.value)
       ELSE collection

\* the collection is empty, the timer has not fired, the site shows some
\* listing
InitStogger ==
  /\ word_index = DefaultVocabulary
  /\ title = <<>>
  /\ encoded_title = None
  /\ news_table \in StoggerListings
  /\ call = NoCall
  /\ parsed_ticker_data = None
  /\ df = <<>>
  /\ result = None
  /\ data = None
  /\ db = <<>>
  /\ runs = <<>>

\* main(mytimer): fetch the report of news-analysis-vader, store it when it
\* counts at least one headline
StoggerMain ==
  \E past_due \in BOOLEAN, now \in Nows, hours \in ServiceIntervals :
    LET response == predict_automatically("news-analysis-vader", news_table,
                                          word_index, hours, now).data
    IN /\ Len(runs) < MaxRuns
       /\ runs' = Append(runs, [past_due |-> past_due, response |-> response])
       /\ db' = stogger_main(db, response)
       /\ UNCHANGED <<encoderVars, newsVars>>

\* ========================================================= specifications
NextEncoder == PrepareNewsTitle
SpecEncoder == InitEncoder /\ [][NextEncoder]_vars

NextNews == PredictForTicker \/ Main
SpecNews == InitNews /\ [][NextNews]_vars

NextStogger == StoggerMain
SpecStogger == InitStogger /\ [][NextStogger]_vars

\* ================================================================= claims
Called == call # NoCall
TimeOnly(row) == Len(row.td_text) = 1
RowDate(row) == row.td_text[1]
RowTime(row) == row.td_text[Len(row.td_text)]
WellFormed(row) == row.has_a /\ row.has_td
Tokens == split(strip_chars(title))
Encoded == encoded_title.value[1]
IndexOf(w) == IF lower(w) \in DOMAIN word_index THEN word_index[lower(w)] ELSE 2

\* C1: a headline is retained by the window filter exactly when
\* start <= timestamp <= end (both bounds included), and the returned count
\* is the number of such headlines.
C1_WindowInclusive ==
  (Called /\ result.status = "ok") =>
    LET parsed == parsed_ticker_data.value
        ts(i) == to_datetime(parsed[i][2], to_24h(parsed[i][3]))
        inside == { i \in 1..Len(parsed) : call.start <= ts(i) /\ ts(i) <= call.end }
    IN /\ { df[k].index + 1 : k \in 1..Len(df) } = inside
       /\ Len(df) = Cardinality(inside)
       /\ result.value[1] = Cardinality(inside)

C1_Witness ==
  /\ call.fn = "predict_for_ticker" /\ result.status = "ok"
  /\ call.start < call.end
  /\ \E k \in 1..Len(df) : df[k].date = call.start
  /\ \E k \in 1..Len(df) : df[k].date = call.end
  /\ Len(df) < Len(parsed_ticker_data.value)
  /\ result.value[1] = 2

\* C2 as stated: a report with newsCount 0 has sentimentScoreVader 0 and
\* sentimentScoreModel 0.5.
C2_Original ==
  (data.status = "ok" /\ data.value.newsCount = 0) =>
    /\ data.value.sentimentScoreVader = Zero
    /\ "sentimentScoreModel" \in DOMAIN data.value
    /\ data.value.sentimentScoreModel = Half

\* C2 amended: a report with newsCount 0 has sentimentScoreVader 0; the
\* report of news-analysis has sentimentScoreModel 0.5 and the report of
\* news-analysis-vader has no sentimentScoreModel at all.
C2_ZeroCountSentinels ==
  (data.status = "ok" /\ data.value.newsCount = 0) =>
    /\ data.value.sentimentScoreVader = Zero
    /\ call.service = "news-analysis" =>
         /\ "sentimentScoreModel" \in DOMAIN data.value
         /\ data.value.sentimentScoreModel = Half
    /\ call.service = "news-analysis-vader" =>
         "sentimentScoreModel" \notin DOMAIN data.value

C2_Witness ==
  /\ call.fn = "predict_automatically" /\ call.service = "news-analysis"
  /\ data.status = "ok" /\ data.value.newsCount = 0
  /\ Len(parsed_ticker_data.value) >= 2
  /\ data.value.sentimentScoreModel = Half

\* C3: a row with only a time token gets the date of the nearest preceding
\* row that has a date token; a row with a date token gets its own date.
C3_DateCarryOver ==
  (Called /\ parsed_ticker_data.status = "ok") =>
    LET parsed == parsed_ticker_data.value
    IN /\ Len(parsed) = Len(news_table)
       /\ \A i \in 1..Len(news_table) :
            IF ~TimeOnly(news_table[i])
            THEN parsed[i][2] = RowDate(news_table[i])
            ELSE \E j \in 1..(i - 1) :
                   /\ ~TimeOnly(news_table[j])
                   /\ \A k \in (j + 1)..(i - 1) : TimeOnly(news_table[k])
                   /\ parsed[i][2] = RowDate(news_table[j])

C3_Witness ==
  /\ Called /\ parsed_ticker_data.status = "ok"
  /\ Len(news_table) = 3
  /\ ~TimeOnly(news_table[1]) /\ ~TimeOnly(news_table[2]) /\ TimeOnly(news_table[3])
  /\ RowDate(news_table[1]) # RowDate(news_table[2])
  /\ parsed_ticker_data.value[3][2] = RowDate(news_table[2])

\* C4: a listing whose first row has only a time token makes parse_data
\* fail (the unbound date raises) and no headline record is returned.
C4_TimeOnlyFirstRowFails ==
  (Called /\ Len(news_table) >= 1 /\ news_table[1].has_td /\ TimeOnly(news_table[1])) =>
    /\ parsed_ticker_data.status = "raised"
    /\ parsed_ticker_data.value = <<>>
    /\ result.status = "raised"
    /\ df = <<>>
    /\ news_table[1].has_a => parsed_ticker_data.exc = "UnboundLocalError"

C4_Witness ==
  /\ Called /\ Len(news_table) >= 2
  /\ WellFormed(news_table[1]) /\ TimeOnly(news_table[1])
  /\ WellFormed(news_table[2]) /\ ~TimeOnly(news_table[2])
  /\ parsed_ticker_data.status = "raised"
  /\ parsed_ticker_data.exc = "UnboundLocalError"

\* C5 as stated: rows without a title anchor or without a timestamp cell are
\* skipped and the records of the well-formed rows are returned in order.
C5_SkipMalformed ==
  Called =>
    LET wf == SelectSeq(news_table, WellFormed)
    IN (wf = <<>> \/ ~TimeOnly(wf[1])) =>
         /\ parsed_ticker_data.status = "ok"
         /\ Len(parsed_ticker_data.value) = Len(wf)
         /\ \A i \in 1..Len(wf) :
              /\ parsed_ticker_data.value[i][4] = wf[i].a_text
              /\ parsed_ticker_data.value[i][3] = RowTime(wf[i])

\* C6 as stated: when the start index followed by the token indices is
\* longer than 100, the output is its first 100 elements.
C6_TruncateAtEnd ==
  LET toks == Tokens
      full == <<1>> \o [i \in 1..Len(toks) |-> IndexOf(toks[i])]
  IN (encoded_title.status = "ok" /\ Len(full) > 100) =>
       /\ Encoded = SubSeq(full, 1, 100)
       /\ Encoded[1] = 1

\* C7: with a vocabulary that has the pad entry, the encoded sequence has
\* length exactly 100 for every title.
C7_LengthIsMaxlen ==
  (encoded_title.status # "none" /\ PAD \in DOMAIN word_index) =>
    /\ encoded_title.status = "ok"
    /\ Len(encoded_title.value) = 1
    /\ Len(Encoded) = 100

C7_Witness ==
  /\ encoded_title.status = "ok"
  /\ Len(Tokens) > 99
  /\ Len(Encoded) = 100

\* C8: the collection holds exactly the fetched reports of the timer runs
\* whose newsCount was greater than 0, once each and in run order, whether
\* or not the timer was past due.
C8_StoredIffNewsCountPositive ==
  LET stored == SelectSeq(runs, LAMBDA r :
                  r.response.status = "ok" /\ r.response.value.newsCount > 0)
  IN /\ Len(db) = Len(stored)
     /\ \A i \in 1..Len(db) : db[i] = stored[i].response.value
     /\ \A i \in 1..Len(db) : db[i].newsCount > 0

C8_Witness ==
  /\ Len(runs) >= 2 /\ Len(db) = 1
  /\ \E i \in 1..Len(runs) :
       /\ runs[i].past_due
       /\ runs[i].response.status = "ok"
       /\ runs[i].response.value.newsCount = 0
  /\ \E i \in 1..Len(runs) :
       /\ runs[i].past_due
       /\ runs[i].response.status = "ok"
       /\ runs[i].response.value.newsCount > 0

\* C9 as stated: with start later than end, predict_for_ticker raises no
\* error for any listing and returns count 0 with the sentinel scores.
\* Stated over the listings whose rows all have their anchor and cell, where
\* the handling of malformed rows (C5) plays no part.
C9_Original ==
  (Called /\ call.start > call.end
     /\ \A i \in 1..Len(news_table) : WellFormed(news_table[i])) =>
    /\ result.status = "ok"
    /\ result.value = empty_window_result(call.service, 0)

\* C9 amended: with start later than end, predict_for_ticker fails only
\* when parse_data fails on the listing; otherwise it retains no headline
\* and returns count 0 with the sentinel scores.
C9_ReversedWindowIsEmpty ==
  (Called /\ call.start > call.end) =>
    /\ result.status = "raised" <=> parsed_ticker_data.status = "raised"
    /\ parsed_ticker_data.status = "ok" =>
         /\ result.status = "ok"
         /\ df = <<>>
         /\ result.value[1] = 0
         /\ result.value[2] = Zero
         /\ call.service = "news-analysis" => result.value[3] = Half
         /\ Len(result.value) = IF call.service = "news-analysis" THEN 3 ELSE 2

C9_Witness ==
  /\ call.fn = "predict_for_ticker" /\ call.start > call.end
  /\ parsed_ticker_data.status = "ok"
  /\ \E i \in 1..Len(parsed_ticker_data.value) :
       LET r == parsed_ticker_data.value[i]
       IN to_datetime(r[2], to_24h(r[3])) <= call.end
  /\ result.status = "ok" /\ result.value[1] = 0

====
